---- MODULE Spec2Model ----
(***************************************************************************)
(* A model of grade_summary_tool.py: file discovery and routing, the       *)
(* roster extraction of create_grade_summary (header locator, mapped path, *)
(* fallback path), the SA / LA / TL score collectors and the table merger. *)
(*                                                                         *)
(* Text.  A Python str is modelled as a sequence of characters.  An ASCII  *)
(* character is the one-character string holding it; a CJK character is    *)
(* the token "uXXXX" of its code point (TLA+ strings are ASCII only), so   *)
(* <<"u5B66", "u53F7">> is the two-character str '学号'.                   *)
(*                                                                         *)
(* Dictionary keys of the source that are CJK are renamed:                 *)
(*   '学号' -> id     '姓名' -> name    '班级' -> class                    *)
(*   '性别' -> gender '序号' -> seq     '原序号' -> original_seq           *)
(*   '来源文件' -> source                                                  *)
(***************************************************************************)
EXTENDS Integers, Sequences, FiniteSets, TLC

VARIABLES
    \* ---- create_grade_summary over a directory ----
    data_directory,  \* the directory argument (a str)
    disk,            \* the directory's files: name -> [format, book]
    all_files,       \* extractor.all_files: the discovered paths, in order
    pc,              \* position in create_grade_summary
    idx,             \* 1-based position in the current stage's file list
    cl_students,     \* the roster list
    sa_scores,       \* student_id -> (key -> score)
    la_scores,       \* student_id -> (key -> score)
    tl_scores,       \* student_id -> score
    failed,          \* the (stage, path) pairs whose except branch ran
    columns,         \* the column names of summary_df
    summary_data,    \* the rows of summary_df
    \* ---- one roster grid, step by step ----
    df,              \* the grid read with header=None
    header,          \* the header locator's result
    found_rows,      \* rows for which a student was appended, in order
    extracted        \* the student_data appended for this grid, in order

vars == <<data_directory, disk, all_files, pc, idx, cl_students, sa_scores,
          la_scores, tl_scores, failed, columns, summary_data,
          df, header, found_rows, extracted>>

pipeVars == <<data_directory, disk, all_files, idx, cl_students, sa_scores,
              la_scores, tl_scores, failed, columns, summary_data>>

----------------------------------------------------------------------------
(* Python str operations *)

DigitChars == <<"0", "1", "2", "3", "4", "5", "6", "7", "8", "9">>
UpperChars == <<"A", "B", "C", "D", "E", "F", "G", "H", "I", "J", "K", "L", "M",
                "N", "O", "P", "Q", "R", "S", "T", "U", "V", "W", "X", "Y", "Z">>
LowerChars == <<"a", "b", "c", "d", "e", "f", "g", "h", "i", "j", "k", "l", "m",
                "n", "o", "p", "q", "r", "s", "t", "u", "v", "w", "x", "y", "z">>

\* The position of character c in sequence s, 0 when absent.
IndexOf(c, s) ==
    IF \E i \in 1..Len(s) : s[i] = c
    THEN CHOOSE i \in 1..Len(s) : s[i] = c /\ \A k \in 1..(i - 1) : s[k] # c
    ELSE 0

\* char.isdigit()
IsDigitChar(c) == IndexOf(c, DigitChars) > 0

\* s.isdigit(): non-empty and every character a digit
IsDigit(s) == Len(s) > 0 /\ \A i \in 1..Len(s) : IsDigitChar(s[i])

\* any(char.isdigit() for char in s)
AnyDigit(s) == \E i \in 1..Len(s) : IsDigitChar(s[i])

LowerChar(c) == IF IndexOf(c, UpperChars) > 0 THEN LowerChars[IndexOf(c, UpperChars)] ELSE c

RECURSIVE Lower(_)
\* s.lower()
Lower(s) == IF s = <<>> THEN <<>> ELSE <<LowerChar(Head(s))>> \o Lower(Tail(s))

IsSpace(c) == c = " "

\* s.strip()
Strip(s) ==
    LET keep == {i \in 1..Len(s) : ~IsSpace(s[i])}
    IN  IF keep = {} THEN <<>>
        ELSE SubSeq(s, CHOOSE i \in keep : \A k \in keep : i <= k,
                       CHOOSE i \in keep : \A k \in keep : i >= k)

\* sub in s
Contains(sub, s) ==
    \E i \in 1..(Len(s) - Len(sub) + 1) : SubSeq(s, i, i + Len(sub) - 1) = sub

\* s.endswith(suffix)
EndsWith(s, suffix) ==
    Len(s) >= Len(suffix) /\ SubSeq(s, Len(s) - Len(suffix) + 1, Len(s)) = suffix

RECURSIVE Replace(_, _)
\* s.replace(old, ''): every non-overlapping occurrence of old, left to right
Replace(s, old) ==
    IF Len(s) < Len(old) \/ s = <<>> THEN s
    ELSE IF SubSeq(s, 1, Len(old)) = old
         THEN Replace(SubSeq(s, Len(old) + 1, Len(s)), old)
         ELSE <<Head(s)>> \o Replace(Tail(s), old)

\* ord(c) of the characters that occur in file names
Ord(c) ==
    IF IndexOf(c, DigitChars) > 0 THEN 47 + IndexOf(c, DigitChars)
    ELSE IF IndexOf(c, UpperChars) > 0 THEN 64 + IndexOf(c, UpperChars)
    ELSE IF IndexOf(c, LowerChars) > 0 THEN 96 + IndexOf(c, LowerChars)
    ELSE CASE c = " " -> 32
           [] c = "-" -> 45
           [] c = "." -> 46
           [] c = "/" -> 47
           [] c = "_" -> 95
           [] c = "u5206" -> 20998
           [] c = "u53F7" -> 21495
           [] c = "u5B66" -> 23398
           [] c = "u5F97" -> 24471
           [] c = "u8BA8" -> 35752
           [] c = "u8BBA" -> 35770

RECURSIVE StrLess(_, _)
\* a < b on str: lexicographic by code point
StrLess(a, b) ==
    IF b = <<>> THEN FALSE
    ELSE IF a = <<>> THEN TRUE
    ELSE IF Head(a) = Head(b) THEN StrLess(Tail(a), Tail(b))
    ELSE Ord(Head(a)) < Ord(Head(b))

----------------------------------------------------------------------------
(* Spreadsheet cells.  A cell is missing (NaN), an integer or a text.      *)

NaN == [kind |-> "nan", num |-> 0, str |-> <<>>]
Num(n) == [kind |-> "num", num |-> n, str |-> <<>>]
Txt(s) == [kind |-> "str", num |-> 0, str |-> s]

\* pd.notna(cell)
NotNa(cell) == cell.kind # "nan"

RECURSIVE Decimal(_)
\* str(n) of a non-negative int
Decimal(n) ==
    IF n < 10 THEN <<DigitChars[n + 1]>>
    ELSE Decimal(n \div 10) \o <<DigitChars[(n % 10) + 1]>>

\* str(cell), which is also what astype(str) makes of it
Str(cell) ==
    CASE cell.kind = "nan" -> <<"n", "a", "n">>
      [] cell.kind = "num" -> Decimal(cell.num)
      [] cell.kind = "str" -> cell.str

\* df.iloc[i].astype(str).tolist(), i counted from 0 as in the source
RowData(grid, i) == [j \in 1..Len(grid[i + 1]) |-> Str(grid[i + 1][j])]

MinOf(a, b) == IF a <= b THEN a ELSE b

----------------------------------------------------------------------------
(* Header locator: lines 103-138 *)

HeaderScanRows == 20
MinHeaders == 2

\* any(kw in s for kw in kws)
AnyKeyword(kws, s) == \E kw \in kws : Contains(kw, s)

IdKeywords == {<<"u5B66", "u53F7">>, <<"s", "t", "u", "d", "e", "n", "t">>, <<"i", "d">>}
NameKeywords == {<<"u59D3", "u540D">>, <<"n", "a", "m", "e">>, <<"u540D", "u5B57">>}
ClassKeywords == {<<"u73ED", "u7EA7">>, <<"c", "l", "a", "s", "s">>, <<"u4E13", "u4E1A">>}
GenderKeywords == {<<"u6027", "u522B">>, <<"g", "e", "n", "d", "e", "r">>, <<"u7537", "u5973">>}
SeqKeywords == {<<"u5E8F", "u53F7">>, <<"n", "o">>, <<"u7F16", "u53F7">>}

Fields == {"id", "name", "class", "gender", "seq"}

\* The if / elif chain of lines 117-131: the field a header cell counts for,
\* "none" when no branch is taken.
HeaderField(cell_str) ==
    IF AnyKeyword(IdKeywords, cell_str) THEN "id"
    ELSE IF AnyKeyword(NameKeywords, cell_str) THEN "name"
    ELSE IF AnyKeyword(ClassKeywords, cell_str) THEN "class"
    ELSE IF AnyKeyword(GenderKeywords, cell_str) THEN "gender"
    ELSE IF AnyKeyword(SeqKeywords, cell_str) THEN "seq"
    ELSE "none"

\* temp_mapping[field] = j
MapPut(mapping, field, j) ==
    [f \in (DOMAIN mapping) \cup {field} |-> IF f = field THEN j ELSE mapping[f]]

EmptyMapping == [f \in {} |-> 0]

\* found_headers += 1 (line 119 and its four siblings)
CountHeader(found_headers, field) == found_headers + 1

RECURSIVE ScanCells(_, _, _, _)
\* The loop of lines 114-131 from column j (0-based) on.
ScanCells(row_data, j, found_headers, temp_mapping) ==
    IF j >= Len(row_data) THEN [found_headers |-> found_headers, temp_mapping |-> temp_mapping]
    ELSE LET cell_str == Lower(Strip(row_data[j + 1]))
             field == HeaderField(cell_str)
         IN  IF field = "none"
             THEN ScanCells(row_data, j + 1, found_headers, temp_mapping)
             ELSE ScanCells(row_data, j + 1, CountHeader(found_headers, field),
                            MapPut(temp_mapping, field, j))

ScanRow(row_data) == ScanCells(row_data, 0, 0, EmptyMapping)

NoHeader == [found |-> FALSE, header_row_idx |-> 0, col_mapping |-> EmptyMapping]

RECURSIVE LocateFrom(_, _)
\* The loop of lines 107-138 from row i (0-based) on.  found = FALSE is
\* header_row_idx = None.
LocateFrom(grid, i) ==
    IF i >= MinOf(HeaderScanRows, Len(grid)) THEN NoHeader
    ELSE LET r == ScanRow(RowData(grid, i))
         IN  IF r.found_headers >= MinHeaders
             THEN [found |-> TRUE, header_row_idx |-> i, col_mapping |-> r.temp_mapping]
             ELSE LocateFrom(grid, i + 1)

HeaderLocator(grid) == LocateFrom(grid, 0)

----------------------------------------------------------------------------
(* Identifier predicate: lines 154-157 and 228-231 *)

MinIdLen == 8
NanStr == <<"n", "a", "n">>

\* cell_value.replace('.', '').replace('-', '')
StripDotDash(s) == Replace(Replace(s, <<".">>), <<"-">>)

\* A variant that leaves out the last clause, so that an all-digit cell passes.
IsStudentIdAnyDigits(cell_value) ==
    /\ cell_value # <<>>
    /\ cell_value # NanStr
    /\ Len(cell_value) >= MinIdLen
    /\ AnyDigit(cell_value)

IsStudentId(cell_value) ==
    /\ cell_value # <<>>
    /\ cell_value # NanStr
    /\ Len(cell_value) >= MinIdLen
    /\ AnyDigit(cell_value)
    /\ ~IsDigit(StripDotDash(cell_value))

----------------------------------------------------------------------------
(* Mapped path: lines 141-197 *)

SearchSpan == 31

\* Lines 167-180: the value of a mapped text column, '' when the column is
\* not mapped or the cell is empty or 'nan'.
MappedText(col_mapping, field, row_data) ==
    IF field \in DOMAIN col_mapping /\ col_mapping[field] < Len(row_data)
    THEN LET v == Strip(row_data[col_mapping[field] + 1])
         IN  IF v # <<>> /\ v # NanStr THEN v ELSE <<>>
    ELSE <<>>

\* Lines 182-185: the sequence column is kept only when it is all digits.
MappedSeq(col_mapping, row_data) ==
    LET v == MappedText(col_mapping, "seq", row_data)
    IN  IF IsDigit(v) THEN v ELSE <<>>

StudentData(student_id, name, seq, class, gender, source) ==
    [id |-> student_id, name |-> name, original_seq |-> seq,
     class |-> class, gender |-> gender, source |-> source]

\* search_end of line 145 (and 221)
SearchEnd(grid, header_row) == MinOf(header_row + SearchSpan, Len(grid))

\* Whether row i holds a student in column student_id_col: lines 150-157.
RowHasId(grid, i, student_id_col) ==
    LET row_data == RowData(grid, i)
    IN  student_id_col < Len(row_data) /\ IsStudentId(Strip(row_data[student_id_col + 1]))

\* The rows (0-based) for which the loop of line 146 (and 222) appends.
IdRows(grid, header_row, student_id_col) ==
    {i \in (header_row + 1)..(SearchEnd(grid, header_row) - 1) :
        RowHasId(grid, i, student_id_col)}

MappedStudent(grid, hdr, i, source) ==
    LET row_data == RowData(grid, i)
        m == hdr.col_mapping
    IN  StudentData(Strip(row_data[m["id"] + 1]),
                    MappedText(m, "name", row_data),
                    MappedSeq(m, row_data),
                    MappedText(m, "class", row_data),
                    MappedText(m, "gender", row_data),
                    source)

RECURSIVE SortedRows(_)
\* A set of row numbers as the increasing sequence a range() loop visits.
SortedRows(S) ==
    IF S = {} THEN <<>>
    ELSE LET m == CHOOSE x \in S : \A y \in S : x <= y
         IN  <<m>> \o SortedRows(S \ {m})

\* The students the mapped path appends for one grid, in loop order.
MappedExtract(grid, hdr, source) ==
    LET rows == SortedRows(IdRows(grid, hdr.header_row_idx, hdr.col_mapping["id"]))
    IN  [n \in 1..Len(rows) |-> MappedStudent(grid, hdr, rows[n], source)]

----------------------------------------------------------------------------
(* Fallback path: lines 199-284 *)

NameMinLen == 2
NameMaxLen == 15
SeqMaxLen == 3
ClassMinLen == 3
ClassMaxLen == 20

\* Line 253: words that rule a cell out as a name.
NameExcluded == {<<"c", "l", "a", "s", "s">>, <<"g", "r", "a", "d", "e">>, <<"u73ED">>,
                 <<"u7EA7">>, <<"u7CFB">>, <<"u9662">>, <<"u4E13", "u4E1A">>}
\* Line 261
GenderValues == {<<"u7537">>, <<"u5973">>}
\* Line 267
ClassMarks == {<<"T">>, <<"u5DE5", "u5546">>, <<"u7BA1", "u7406">>, <<"u7ECF", "u6D4E">>,
               <<"u91D1", "u878D">>, <<"u4F1A", "u8BA1">>}

\* Lines 207-217: the first cell, row by row and left to right within the
\* first 20 rows, that holds an identifier keyword.
AnchorCells(grid) ==
    {c \in (0..(MinOf(HeaderScanRows, Len(grid)) - 1)) \X (0..(Len(grid[1]) - 1)) :
        AnyKeyword(IdKeywords, Lower(Strip(RowData(grid, c[1])[c[2] + 1])))}

FindAnchor(grid) ==
    LET cells == IF grid = <<>> THEN {} ELSE AnchorCells(grid)
    IN  IF cells = {}
        THEN [found |-> FALSE, header_row |-> 0, student_id_col |-> 0]
        ELSE LET a == CHOOSE c \in cells :
                          \A d \in cells : c[1] < d[1] \/ (c[1] = d[1] /\ c[2] <= d[2])
             IN  [found |-> TRUE, header_row |-> a[1], student_id_col |-> a[2]]

NoInfo == [student_name |-> <<>>, original_seq |-> <<>>,
           gender_info |-> <<>>, class_info |-> <<>>]

\* Lines 247-249
LooksLikeId(potential_value) ==
    /\ Len(potential_value) >= MinIdLen
    /\ AnyDigit(potential_value)
    /\ ~IsDigit(StripDotDash(potential_value))

\* Lines 250-269: what one cell does to the four fields.  The first branch
\* is entered on its outer condition alone; when its inner tests fail the
\* elif branches below it are not tried.
InferCell(info, potential_value) ==
    IF info.student_name = <<>>
       /\ ~(LooksLikeId(potential_value) \/ IsDigit(Replace(potential_value, <<".">>)))
    THEN IF Len(potential_value) >= NameMinLen /\ Len(potential_value) <= NameMaxLen
            /\ ~AnyKeyword(NameExcluded, Lower(potential_value))
         THEN [info EXCEPT !.student_name = potential_value]
         ELSE info
    ELSE IF info.original_seq = <<>> /\ IsDigit(potential_value)
            /\ Len(potential_value) <= SeqMaxLen
    THEN [info EXCEPT !.original_seq = potential_value]
    ELSE IF info.gender_info = <<>> /\ potential_value \in GenderValues
    THEN [info EXCEPT !.gender_info = potential_value]
    ELSE IF info.class_info = <<>>
    THEN IF AnyKeyword(ClassMarks, potential_value)
            /\ Len(potential_value) <= ClassMaxLen /\ Len(potential_value) >= ClassMinLen
         THEN [info EXCEPT !.class_info = potential_value]
         ELSE info
    ELSE info

RECURSIVE InferFrom(_, _, _, _)
\* The loop of lines 242-269 from column k (0-based) on.
InferFrom(row_data, student_id_col, k, info) ==
    IF k >= Len(row_data) THEN info
    ELSE IF k # student_id_col /\ row_data[k + 1] # <<>> /\ row_data[k + 1] # NanStr
         THEN InferFrom(row_data, student_id_col, k + 1,
                        InferCell(info, Strip(row_data[k + 1])))
         ELSE InferFrom(row_data, student_id_col, k + 1, info)

FallbackStudent(grid, anchor, i, source) ==
    LET row_data == RowData(grid, i)
        info == InferFrom(row_data, anchor.student_id_col, 0, NoInfo)
    IN  StudentData(Strip(row_data[anchor.student_id_col + 1]),
                    info.student_name, info.original_seq,
                    info.class_info, info.gender_info, source)

FallbackRows(grid) ==
    LET anchor == FindAnchor(grid)
    IN  IF anchor.found
        THEN SortedRows(IdRows(grid, anchor.header_row, anchor.student_id_col))
        ELSE <<>>

FallbackExtract(grid, source) ==
    LET rows == FallbackRows(grid)
        anchor == FindAnchor(grid)
    IN  [n \in 1..Len(rows) |-> FallbackStudent(grid, anchor, rows[n], source)]

\* Line 141: which path a grid takes.
UsesMappedPath(hdr) == hdr.found /\ "id" \in DOMAIN hdr.col_mapping

\* Line 141 replaced by "a header row was found or not": every grid is sent
\* down the fallback path.
ExtractWithFallbackAlways(grid, hdr, source) == FallbackExtract(grid, source)

\* Lines 140-284 for one grid whose header locator returned hdr: the
\* students appended to cl_students.
ExtractWith(grid, hdr, source) ==
    IF UsesMappedPath(hdr) THEN MappedExtract(grid, hdr, source)
    ELSE FallbackExtract(grid, source)

\* The rows those students come from, in the same order.
RowsWith(grid, hdr) ==
    IF UsesMappedPath(hdr)
    THEN SortedRows(IdRows(grid, hdr.header_row_idx, hdr.col_mapping["id"]))
    ELSE FallbackRows(grid)

\* Lines 102-284 for one grid.
ExtractRoster(grid, source) == ExtractWith(grid, HeaderLocator(grid), source)

----------------------------------------------------------------------------
(* Roster grids.  Five columns; blank rows pad a header row down to and     *)
(* past the 20-row scan limit and data rows down to and past the 30-row    *)
(* search window.                                                          *)

IdA == <<"2", "0", "2", "3", "0", "0", "0", "1", "A">>
IdB == <<"S", "2", "0", "2", "3", "-", "0", "0", "2">>
IdZ == <<"2", "0", "2", "3", "0", "0", "0", "9", "Z">>
ZhangSan == <<"u5F20", "u4E09">>
LiSi == <<"u674E", "u56DB">>
Male == <<"u7537">>
Female == <<"u5973">>
ClassOne == <<"u5DE5", "u5546", "1", "u73ED">>

BlankRow == <<NaN, NaN, NaN, NaN, NaN>>

\* [序号, 学号, 姓名, 性别, 班级]
HeaderFull == <<Txt(<<"u5E8F", "u53F7">>), Txt(<<"u5B66", "u53F7">>), Txt(<<"u59D3", "u540D">>),
                Txt(<<"u6027", "u522B">>), Txt(<<"u73ED", "u7EA7">>)>>
\* [No, Student ID, Name, -, -]
HeaderEnglish == <<Txt(<<"N", "o">>), Txt(<<"S", "t", "u", "d", "e", "n", "t", " ", "I", "D">>),
                   Txt(<<"N", "a", "m", "e">>), NaN, NaN>>
\* [ID, 学号, -, -, -]: two cells, one field
HeaderTwoIds == <<Txt(<<"I", "D">>), Txt(<<"u5B66", "u53F7">>), NaN, NaN, NaN>>
\* [-, 学号, -, -, -]
HeaderOneId == <<NaN, Txt(<<"u5B66", "u53F7">>), NaN, NaN, NaN>>
\* [Student Name, -, -, -, -]: one cell, keywords of two fields
HeaderStudentName == <<Txt(<<"S", "t", "u", "d", "e", "n", "t", " ", "N", "a", "m", "e">>),
                       NaN, NaN, NaN, NaN>>
\* [序号, -, 姓名, -, -]: two fields, no identifier
HeaderNoId == <<Txt(<<"u5E8F", "u53F7">>), NaN, Txt(<<"u59D3", "u540D">>), NaN, NaN>>

HeaderRows == {HeaderFull, HeaderEnglish, HeaderTwoIds, HeaderOneId,
               HeaderStudentName, HeaderNoId}

DataRows ==
    { <<Num(1), Txt(IdA), Txt(ZhangSan), Txt(Male), Txt(ClassOne)>>,
      <<Txt(Female), Txt(IdB), Txt(LiSi), NaN, Txt(ClassOne)>>,
      <<Txt(ClassOne), Txt(<<" ">> \o IdA \o <<" ">>), Num(2), Txt(ZhangSan), Txt(Male)>>,
      <<Num(2), Txt(<<"a", "b", "c">>), Txt(<<"B", "o", "b">>), NaN, NaN>>,
      <<Num(3), Num(20230001), Txt(LiSi), Txt(Female), NaN>>,
      <<Num(4), Txt(<<"2", "0", "2", "3", "-", "0", "0", "0", "1", ".", "5">>), NaN, NaN, NaN>>,
      <<Num(5), Txt(<<"a", "b", "c", "d", "e", "f", "g", "h", "i">>), NaN, NaN, NaN>>,
      <<Num(6), Txt(<<"2", "0", "2", "3", "A", "0", "1", " ">>), NaN, NaN, NaN>>,
      <<Num(7), NaN, Txt(ZhangSan), NaN, NaN>>,
      HeaderFull }

\* The rows used as the second data row.
LastRows ==
    { <<Num(1), Txt(IdA), Txt(ZhangSan), Txt(Male), Txt(ClassOne)>>,
      <<Txt(Female), Txt(IdB), Txt(LiSi), NaN, Txt(ClassOne)>>,
      <<Num(2), Txt(<<"a", "b", "c">>), Txt(<<"B", "o", "b">>), NaN, NaN>> }

RECURSIVE Blanks(_)
Blanks(n) == IF n = 0 THEN <<>> ELSE <<BlankRow>> \o Blanks(n - 1)

\* Blank rows above the header: none, one, and the two sides of the scan limit.
LeadChoices == {0, 1, HeaderScanRows - 1, HeaderScanRows}
\* Blank rows between the first data row and the last two: none, and the
\* counts that put the two sides of the search window between or before
\* the last two.
GapChoices == {0, SearchSpan - 3, SearchSpan - 2}

\* The rows used as the first data row.
FirstRows ==
    { <<Num(1), Txt(IdA), Txt(ZhangSan), Txt(Male), Txt(ClassOne)>>,
      <<Num(2), Txt(<<"a", "b", "c">>), Txt(<<"B", "o", "b">>), NaN, NaN>> }

RosterGrids ==
    {Blanks(a) \o <<h, d0>> \o Blanks(g) \o <<d1, d2>> :
        a \in LeadChoices, h \in HeaderRows, d0 \in FirstRows, g \in GapChoices,
        d1 \in DataRows, d2 \in LastRows}

RosterSource == <<"C", "L", "1", ".", "x", "l", "s">>

Unset == <<>>

RosterInit ==
    /\ df \in RosterGrids
    /\ pc = "grid"
    /\ header = NoHeader
    /\ found_rows = <<>>
    /\ extracted = <<>>
    /\ data_directory = Unset /\ disk = Unset /\ all_files = <<>> /\ idx = 0
    /\ cl_students = <<>> /\ sa_scores = Unset /\ la_scores = Unset /\ tl_scores = Unset
    /\ failed = {} /\ columns = <<>> /\ summary_data = <<>>

\* Lines 103-138
Locate ==
    /\ pc = "grid"
    /\ header' = HeaderLocator(df)
    /\ pc' = "located"
    /\ UNCHANGED <<df, found_rows, extracted>>
    /\ UNCHANGED pipeVars

\* Lines 140-284
Extract ==
    /\ pc = "located"
    /\ extracted' = ExtractWith(df, header, RosterSource)
    /\ found_rows' = RowsWith(df, header)
    /\ pc' = "extracted"
    /\ UNCHANGED <<df, header>>
    /\ UNCHANGED pipeVars

RosterNext == Locate \/ Extract

RosterSpec == RosterInit /\ [][RosterNext]_vars

----------------------------------------------------------------------------
(* Files: discovery (lines 48-52), routing (83, 294, 334, 374), reading    *)
(* (lines 90-100 and their three copies)                                   *)

XlsExt == <<".", "x", "l", "s">>
XlsxExt == <<".", "x", "l", "s", "x">>
MarkCL == <<"C", "L">>
MarkSA == <<"S", "A">>
MarkLA == <<"L", "A">>
MarkTL == <<"T", "L">>
CurrentDir == <<".">>

\* str(Path(data_directory) / name): no prefix for the directory '.'
PathStr(dir, name) == IF dir = CurrentDir THEN name ELSE dir \o <<"/">> \o name

\* Path(path).name: what follows the last '/'
PathName(path) ==
    LET slashes == {i \in 1..Len(path) : path[i] = "/"}
    IN  IF slashes = {} THEN path
        ELSE SubSeq(path, (CHOOSE i \in slashes : \A k \in slashes : i >= k) + 1, Len(path))

\* Path(data_directory).glob('*' + ext): the names that end with ext
GlobNames(names, ext) == {n \in names : EndsWith(n, ext)}

\* The orders in which a set of names can be listed.
Orders(S) ==
    {o \in [1..Cardinality(S) -> S] : \A a, b \in 1..Cardinality(S) : a # b => o[a] # o[b]}

\* Lines 48-52: the '*.xlsx' matches, then the '*.xls' matches, each in the
\* order the file system lists them.
DiscoverOrders(dir, names) ==
    {[n \in 1..(Len(a) + Len(b)) |-> PathStr(dir, (a \o b)[n])] :
        a \in Orders(GlobNames(names, XlsxExt)), b \in Orders(GlobNames(names, XlsExt))}

\* Line 83 (294, 334 alike): 'CL' in f and f.endswith('.xls')
RoutedWithExt(f, mark) == Contains(mark, f) /\ EndsWith(f, XlsExt)
\* Line 374: 'TL' in f
RoutedTL(f) == Contains(MarkTL, f)

cl_files == SelectSeq(all_files, LAMBDA f : RoutedWithExt(f, MarkCL))
sa_files == SelectSeq(all_files, LAMBDA f : RoutedWithExt(f, MarkSA))
la_files == SelectSeq(all_files, LAMBDA f : RoutedWithExt(f, MarkLA))
tl_files == SelectSeq(all_files, LAMBDA f : RoutedTL(f))

\* Line 91: the backends tried for a path
Engines(f) == IF EndsWith(f, XlsExt) THEN <<"openpyxl", "xlrd">> ELSE <<"openpyxl">>

\* Whether pd.read_excel with this backend reads a file of this format.
EngineReads(engine, format) ==
    \/ engine = "openpyxl" /\ format = "ooxml"
    \/ engine = "xlrd" /\ format = "biff"

RECURSIVE TryFrom(_, _, _)
\* Lines 93-100 from the n-th backend on: TRUE when a read succeeded, FALSE
\* when the exception of the last backend was re-raised.
TryFrom(engines, n, format) ==
    IF n > Len(engines) THEN TRUE
    ELSE IF EngineReads(engines[n], format) THEN TRUE
    ELSE IF engines[n] = engines[Len(engines)] THEN FALSE
    ELSE TryFrom(engines, n + 1, format)

\* A variant that gives up at the first backend that fails.
ReadSucceedsFirstOnly(f, format) == EngineReads(Engines(f)[1], format)

\* Whether the read of lines 90-100 leaves the try block with a frame.
ReadSucceeds(f, format) == TryFrom(Engines(f), 1, format)

\* The file a path names.
FileAt(f) == disk[PathName(f)]

----------------------------------------------------------------------------
(* Labelled tables: pd.read_excel(f) takes the first row as the column     *)
(* labels and the rest as the rows.                                        *)

\* The label of column j (0-based) of a sheet: the header cell, or
\* 'Unnamed: j' for an empty one.
ColumnLabel(book, j) ==
    IF NotNa(book[1][j + 1]) THEN Str(book[1][j + 1])
    ELSE <<"U", "n", "n", "a", "m", "e", "d", ":", " ">> \o Decimal(j)

\* df.columns
Columns(book) ==
    IF book = <<>> THEN <<>> ELSE [j \in 1..Len(book[1]) |-> ColumnLabel(book, j - 1)]

\* The rows of df.iterrows()
TableRows(book) == IF book = <<>> THEN <<>> ELSE Tail(book)

\* The position of the column labelled label, 0 when there is none.
ColumnOf(cols, label) == IndexOf(label, cols)

IdLabel == <<"u5B66", "u53F7">>
ScoreWord == <<"u5F97", "u5206">>
TLLabel == <<"u8BA8", "u8BBA", "/">>
TLColumn == <<"T", "L", "u8BA8", "u8BBA">>

\* Lines 312-315: the first column whose label contains '得分', 0 for None.
ScoreColumn(cols) ==
    IF \E j \in 1..Len(cols) : Contains(ScoreWord, cols[j])
    THEN CHOOSE j \in 1..Len(cols) :
             Contains(ScoreWord, cols[j]) /\ \A k \in 1..(j - 1) : ~Contains(ScoreWord, cols[k])
    ELSE 0

\* Line 325: Path(sa_file).name.replace('.xls', '')
CategoryKey(f) == Replace(PathName(f), XlsExt)

\* Lines 323-325: sa_scores[student_id][key] = score
ScorePut(scores, student_id, key, score) ==
    IF student_id \in DOMAIN scores
    THEN [scores EXCEPT ![student_id] = MapPut(@, key, score)]
    ELSE MapPut(scores, student_id, MapPut(EmptyMapping, key, score))

\* A variant of line 319 that does not look at the score cell.
IdPresent(id_cell, score_cell) == NotNa(id_cell)

\* Line 319: is the row one that gets recorded
BothPresent(id_cell, score_cell) == NotNa(id_cell) /\ NotNa(score_cell)

RECURSIVE CollectKeyed(_, _, _, _, _, _)
\* Lines 318-325 from the r-th row on.  row['学号'] raises KeyError when the
\* table has no such column; raised = TRUE carries the exception out, with
\* the mapping as it stands at that moment.
CollectKeyed(scores, rows, r, id_col, score_col, key) ==
    IF r > Len(rows) THEN [scores |-> scores, raised |-> FALSE]
    ELSE IF id_col = 0 THEN [scores |-> scores, raised |-> TRUE]
    ELSE IF BothPresent(rows[r][id_col], rows[r][score_col])
         THEN CollectKeyed(ScorePut(scores, Strip(Str(rows[r][id_col])), key,
                                    rows[r][score_col]),
                           rows, r + 1, id_col, score_col, key)
         ELSE CollectKeyed(scores, rows, r + 1, id_col, score_col, key)

\* Lines 297-327 (337-367) for one file: the mapping afterwards, and whether
\* the except branch ran.
CollectFile(scores, f) ==
    IF ~ReadSucceeds(f, FileAt(f).format) THEN [scores |-> scores, raised |-> TRUE]
    ELSE LET cols == Columns(FileAt(f).book)
         IN  IF ScoreColumn(cols) = 0 THEN [scores |-> scores, raised |-> FALSE]
             ELSE CollectKeyed(scores, TableRows(FileAt(f).book), 1,
                               ColumnOf(cols, IdLabel), ScoreColumn(cols), CategoryKey(f))

\* A variant of line 396 that keeps the first value held for an identifier.
TLPutKeepFirst(scores, student_id, score) ==
    IF student_id \in DOMAIN scores THEN scores ELSE MapPut(scores, student_id, score)

\* Line 396: tl_scores[student_id] = score
TLPut(scores, student_id, score) == MapPut(scores, student_id, score)

RECURSIVE CollectTLRows(_, _, _, _, _)
\* Lines 392-396 from the r-th row on.
CollectTLRows(scores, rows, r, id_col, tl_col) ==
    IF r > Len(rows) THEN [scores |-> scores, raised |-> FALSE]
    ELSE IF id_col = 0 THEN [scores |-> scores, raised |-> TRUE]
    ELSE IF BothPresent(rows[r][id_col], rows[r][tl_col])
         THEN CollectTLRows(TLPut(scores, Strip(Str(rows[r][id_col])), rows[r][tl_col]),
                            rows, r + 1, id_col, tl_col)
         ELSE CollectTLRows(scores, rows, r + 1, id_col, tl_col)

\* Lines 377-398 for one file.
CollectTLFile(scores, f) ==
    IF ~ReadSucceeds(f, FileAt(f).format) THEN [scores |-> scores, raised |-> TRUE]
    ELSE LET cols == Columns(FileAt(f).book)
         IN  IF ColumnOf(cols, TLLabel) = 0 THEN [scores |-> scores, raised |-> FALSE]
             ELSE CollectTLRows(scores, TableRows(FileAt(f).book), 1,
                                ColumnOf(cols, IdLabel), ColumnOf(cols, TLLabel))

\* Lines 86-287 for one file: the roster afterwards, and whether the except
\* branch ran.
RosterFile(students, f) ==
    IF ~ReadSucceeds(f, FileAt(f).format) THEN [students |-> students, raised |-> TRUE]
    ELSE [students |-> students \o ExtractRoster(FileAt(f).book, PathName(f)),
          raised |-> FALSE]

----------------------------------------------------------------------------
(* Table merger: lines 405-455 *)

\* Line 406: ['序号', '原序号', '学号', '姓名', '班级', '性别', '来源文件']
FixedColumns ==
    << <<"u5E8F", "u53F7">>, <<"u539F", "u5E8F", "u53F7">>, <<"u5B66", "u53F7">>,
       <<"u59D3", "u540D">>, <<"u73ED", "u7EA7">>, <<"u6027", "u522B">>,
       <<"u6765", "u6E90", "u6587", "u4EF6">> >>

\* set(k for scores in sa_scores.values() for k in scores.keys())
KeysOf(scores) == UNION {DOMAIN scores[student_id] : student_id \in DOMAIN scores}

RECURSIVE SortedDescending(_)
\* A variant of sorted() that puts the greatest first.
SortedDescending(S) ==
    IF S = {} THEN <<>>
    ELSE LET m == CHOOSE x \in S : \A y \in S : x = y \/ StrLess(y, x)
         IN  <<m>> \o SortedDescending(S \ {m})

RECURSIVE Sorted(_)
\* sorted(list(S)) of a set of str
Sorted(S) ==
    IF S = {} THEN <<>>
    ELSE LET m == CHOOSE x \in S : \A y \in S : x = y \/ StrLess(x, y)
         IN  <<m>> \o Sorted(S \ {m})

\* Lines 409 and 413
all_sa_files == Sorted(KeysOf(sa_scores))
all_la_files == Sorted(KeysOf(la_scores))

\* Lines 406-417
BuildColumns == FixedColumns \o all_sa_files \o all_la_files \o <<TLColumn>>

\* The value put where no score is held (lines 436, 443, 449).
DefaultScore == Num(0)

\* Lines 436-438 (443-445): the cell of one keyed score column
KeyedCell(scores, student_id, key) ==
    IF student_id \in DOMAIN scores /\ key \in DOMAIN scores[student_id]
    THEN scores[student_id][key]
    ELSE DefaultScore

\* A variant of line 449 that leaves the cell empty when no score is held.
TLCellBlank(scores, student_id) ==
    IF student_id \in DOMAIN scores THEN scores[student_id] ELSE NaN

\* Line 449: tl_scores.get(student_id, 0)
TLCell(scores, student_id) ==
    IF student_id \in DOMAIN scores THEN scores[student_id] ELSE DefaultScore

\* Lines 422-452: the row of the i-th student (i counted from 1)
SummaryRow(i, student) ==
    << Num(i), Txt(student.original_seq), Txt(student.id), Txt(student.name),
       Txt(student.class), Txt(student.gender), Txt(student.source) >>
    \o [n \in 1..Len(all_sa_files) |-> KeyedCell(sa_scores, student.id, all_sa_files[n])]
    \o [n \in 1..Len(all_la_files) |-> KeyedCell(la_scores, student.id, all_la_files[n])]
    \o << TLCell(tl_scores, student.id) >>

\* A variant of the loop of line 422 that keeps one row per identifier.
BuildRowsDedup(students) ==
    LET firsts == SelectSeq([i \in 1..Len(students) |-> i],
                            LAMBDA i : \A k \in 1..(i - 1) : students[k].id # students[i].id)
    IN  [n \in 1..Len(firsts) |-> SummaryRow(n, students[firsts[n]])]

\* Lines 420-452
BuildRows(students) == [i \in 1..Len(students) |-> SummaryRow(i, students[i])]

----------------------------------------------------------------------------
(* Directories *)

MaxFiles == 2

FileNames ==
    { <<"C", "L", "1", ".", "x", "l", "s">>,
      <<"C", "L", "2", ".", "x", "l", "s">>,
      <<"S", "A", "1", ".", "x", "l", "s">>,
      <<"L", "A", "1", ".", "x", "l", "s">>,
      <<"S", "A", "L", "A", "1", ".", "x", "l", "s">>,
      <<"T", "L", "1", ".", "x", "l", "s">>,
      <<"T", "L", "2", ".", "x", "l", "s", "x">> }

Directories == {<<"d", "a", "t", "a">>, <<"T", "L", "d", "a", "t", "a">>}

\* [学号, 姓名, 得分, 讨论/]: a row with no score, a row with no identifier,
\* a student with no discussion score
BookA ==
    << <<Txt(IdLabel), Txt(<<"u59D3", "u540D">>), Txt(ScoreWord), Txt(TLLabel)>>,
       <<Txt(IdA), Txt(ZhangSan), Num(85), Num(9)>>,
       <<Txt(IdB), Txt(LiSi), NaN, Num(7)>>,
       <<NaN, Txt(LiSi), Num(70), Num(5)>>,
       <<Txt(IdZ), NaN, Num(60), NaN>> >>

\* [学号, 姓名, 得分, 讨论/]: other values, a padded identifier, an identifier twice
BookB ==
    << <<Txt(IdLabel), Txt(<<"u59D3", "u540D">>), Txt(ScoreWord), Txt(TLLabel)>>,
       <<Txt(IdA), Txt(ZhangSan), Num(90), Num(4)>>,
       <<Txt(<<" ">> \o IdB \o <<" ">>), Txt(LiSi), Num(66), Num(3)>>,
       <<Txt(IdA), Txt(ZhangSan), Num(95), NaN>> >>

\* [序号, 学号, 姓名]: a roster with no score column
BookRoster ==
    << <<Txt(<<"u5E8F", "u53F7">>), Txt(IdLabel), Txt(<<"u59D3", "u540D">>)>>,
       <<Num(1), Txt(IdA), Txt(ZhangSan)>>,
       <<Num(2), Txt(IdB), Txt(LiSi)>> >>

\* [姓名, 得分, 讨论/]: scores with no identifier column
BookNoId ==
    << <<Txt(<<"u59D3", "u540D">>), Txt(ScoreWord), Txt(TLLabel)>>,
       <<Txt(ZhangSan), Num(50), Num(5)>> >>

\* [学号, 得分, 讨论/]: score columns with no value in them
BookNoValues ==
    << <<Txt(IdLabel), Txt(ScoreWord), Txt(TLLabel)>>,
       <<Txt(IdA), NaN, NaN>> >>

FileContents ==
    { [format |-> "biff", book |-> BookA],
      [format |-> "biff", book |-> BookB],
      [format |-> "ooxml", book |-> BookB],
      [format |-> "biff", book |-> BookRoster],
      [format |-> "biff", book |-> BookNoId],
      [format |-> "biff", book |-> BookNoValues],
      [format |-> "corrupt", book |-> BookA] }

Disks ==
    UNION {[S -> FileContents] : S \in {T \in SUBSET FileNames : Cardinality(T) <= MaxFiles}}

----------------------------------------------------------------------------
(* create_grade_summary, one file at a time *)

\* Line 59: data_directory = '.', the default that main() runs with.
Init ==
    /\ data_directory = CurrentDir
    /\ disk \in Disks
    /\ all_files = <<>>
    /\ pc = "start"
    /\ idx = 0
    /\ cl_students = <<>>
    /\ sa_scores = EmptyMapping /\ la_scores = EmptyMapping /\ tl_scores = EmptyMapping
    /\ failed = {}
    /\ columns = <<>>
    /\ summary_data = <<>>
    /\ df = <<>> /\ header = NoHeader /\ found_rows = <<>> /\ extracted = <<>>

rosterVars == <<df, header, found_rows, extracted>>

\* Lines 77-83: discover_files, then cl_students = []
Discover ==
    /\ pc = "start"
    /\ all_files' \in DiscoverOrders(data_directory, DOMAIN disk)
    /\ pc' = "cl"
    /\ idx' = 1
    /\ cl_students' = <<>>
    /\ UNCHANGED <<data_directory, disk, sa_scores, la_scores, tl_scores, failed,
                   columns, summary_data>>
    /\ UNCHANGED rosterVars

\* One turn of the loop of line 85
ProcessCLFile ==
    /\ pc = "cl" /\ idx <= Len(cl_files)
    /\ LET r == RosterFile(cl_students, cl_files[idx])
       IN  /\ cl_students' = r.students
           /\ failed' = IF r.raised THEN failed \cup {<<"cl", cl_files[idx]>>} ELSE failed
    /\ idx' = idx + 1
    /\ UNCHANGED <<data_directory, disk, all_files, pc, sa_scores, la_scores, tl_scores,
                   columns, summary_data>>
    /\ UNCHANGED rosterVars

\* Lines 289-294
BeginSA ==
    /\ pc = "cl" /\ idx > Len(cl_files)
    /\ pc' = "sa" /\ idx' = 1
    /\ sa_scores' = EmptyMapping
    /\ UNCHANGED <<data_directory, disk, all_files, cl_students, la_scores, tl_scores,
                   failed, columns, summary_data>>
    /\ UNCHANGED rosterVars

\* One turn of the loop of line 296
ProcessSAFile ==
    /\ pc = "sa" /\ idx <= Len(sa_files)
    /\ LET r == CollectFile(sa_scores, sa_files[idx])
       IN  /\ sa_scores' = r.scores
           /\ failed' = IF r.raised THEN failed \cup {<<"sa", sa_files[idx]>>} ELSE failed
    /\ idx' = idx + 1
    /\ UNCHANGED <<data_directory, disk, all_files, pc, cl_students, la_scores, tl_scores,
                   columns, summary_data>>
    /\ UNCHANGED rosterVars

\* Lines 329-334
BeginLA ==
    /\ pc = "sa" /\ idx > Len(sa_files)
    /\ pc' = "la" /\ idx' = 1
    /\ la_scores' = EmptyMapping
    /\ UNCHANGED <<data_directory, disk, all_files, cl_students, sa_scores, tl_scores,
                   failed, columns, summary_data>>
    /\ UNCHANGED rosterVars

\* One turn of the loop of line 336
ProcessLAFile ==
    /\ pc = "la" /\ idx <= Len(la_files)
    /\ LET r == CollectFile(la_scores, la_files[idx])
       IN  /\ la_scores' = r.scores
           /\ failed' = IF r.raised THEN failed \cup {<<"la", la_files[idx]>>} ELSE failed
    /\ idx' = idx + 1
    /\ UNCHANGED <<data_directory, disk, all_files, pc, cl_students, sa_scores, tl_scores,
                   columns, summary_data>>
    /\ UNCHANGED rosterVars

\* Lines 369-374
BeginTL ==
    /\ pc = "la" /\ idx > Len(la_files)
    /\ pc' = "tl" /\ idx' = 1
    /\ tl_scores' = EmptyMapping
    /\ UNCHANGED <<data_directory, disk, all_files, cl_students, sa_scores, la_scores,
                   failed, columns, summary_data>>
    /\ UNCHANGED rosterVars

\* One turn of the loop of line 376
ProcessTLFile ==
    /\ pc = "tl" /\ idx <= Len(tl_files)
    /\ LET r == CollectTLFile(tl_scores, tl_files[idx])
       IN  /\ tl_scores' = r.scores
           /\ failed' = IF r.raised THEN failed \cup {<<"tl", tl_files[idx]>>} ELSE failed
    /\ idx' = idx + 1
    /\ UNCHANGED <<data_directory, disk, all_files, pc, cl_students, sa_scores, la_scores,
                   columns, summary_data>>
    /\ UNCHANGED rosterVars

\* Lines 400-463
Merge ==
    /\ pc = "tl" /\ idx > Len(tl_files)
    /\ columns' = BuildColumns
    /\ summary_data' = BuildRows(cl_students)
    /\ pc' = "done"
    /\ UNCHANGED <<data_directory, disk, all_files, idx, cl_students, sa_scores, la_scores,
                   tl_scores, failed>>
    /\ UNCHANGED rosterVars

Next ==
    \/ Discover
    \/ ProcessCLFile
    \/ BeginSA
    \/ ProcessSAFile
    \/ BeginLA
    \/ ProcessLAFile
    \/ BeginTL
    \/ ProcessTLFile
    \/ Merge

Spec == Init /\ [][Next]_vars

\* create_grade_summary(data_directory) called on a named directory that
\* holds at most one file.
DirInit ==
    /\ data_directory \in Directories
    /\ disk \in {d \in Disks : Cardinality(DOMAIN d) <= 1}
    /\ all_files = <<>>
    /\ pc = "start"
    /\ idx = 0
    /\ cl_students = <<>>
    /\ sa_scores = EmptyMapping /\ la_scores = EmptyMapping /\ tl_scores = EmptyMapping
    /\ failed = {}
    /\ columns = <<>>
    /\ summary_data = <<>>
    /\ df = <<>> /\ header = NoHeader /\ found_rows = <<>> /\ extracted = <<>>

DirSpec == DirInit /\ [][Next]_vars

----------------------------------------------------------------------------
(* Claims about create_grade_summary, checked under Spec (C7: DirSpec) *)

Readable(f) == \E n \in 1..Len(Engines(f)) : EngineReads(Engines(f)[n], FileAt(f).format)

RECURSIVE C1_Extracted(_)
\* The students extracted from a list of roster files, file after file.
C1_Extracted(files) ==
    IF files = <<>> THEN <<>>
    ELSE (IF Readable(Head(files))
          THEN ExtractRoster(FileAt(Head(files)).book, PathName(Head(files)))
          ELSE <<>>) \o C1_Extracted(Tail(files))

ScoreIds == (DOMAIN sa_scores) \cup (DOMAIN la_scores) \cup (DOMAIN tl_scores)
RosterIds == {cl_students[k].id : k \in 1..Len(cl_students)}

\* C1: the output has one row per extracted student, in extraction order,
\* numbered 1..n in its first column, identifiers that occur twice keep
\* their rows, and no row exists for an identifier held only by scores.
C1_RowsAreTheRoster ==
    pc = "done" =>
        /\ cl_students = C1_Extracted(cl_files)
        /\ Len(summary_data) = Len(cl_students)
        /\ \A i \in 1..Len(summary_data) :
              /\ summary_data[i][1] = Num(i)
              /\ summary_data[i][2] = Txt(cl_students[i].original_seq)
              /\ summary_data[i][3] = Txt(cl_students[i].id)
              /\ summary_data[i][4] = Txt(cl_students[i].name)
              /\ summary_data[i][5] = Txt(cl_students[i].class)
              /\ summary_data[i][6] = Txt(cl_students[i].gender)
              /\ summary_data[i][7] = Txt(cl_students[i].source)
        /\ \A student_id \in ScoreIds \ RosterIds :
              \A i \in 1..Len(summary_data) : summary_data[i][3] # Txt(student_id)

\* Reached: an output in which one identifier has two rows while another
\* identifier holds scores and is in no roster.
C1_Witness ==
    /\ pc = "done"
    /\ \E i, k \in 1..Len(summary_data) : i < k /\ summary_data[i][3] = summary_data[k][3]
    /\ ScoreIds \ RosterIds # {}

\* C2: every score cell of every output row is the value held for the row's
\* identifier under the column's key when one is held, and zero otherwise;
\* none is missing or empty.
C2_ScoreCellsAreValueOrZero ==
    pc = "done" =>
        LET nsa == Cardinality(KeysOf(sa_scores))
            nla == Cardinality(KeysOf(la_scores))
        IN  /\ Len(columns) = 7 + nsa + nla + 1
            /\ \A i \in 1..Len(summary_data) :
                  LET row == summary_data[i]
                      student_id == cl_students[i].id
                  IN  /\ Len(row) = Len(columns)
                      /\ \A p \in 8..Len(row) :
                            /\ row[p] # NaN
                            /\ row[p] # Txt(<<>>)
                            /\ row[p] =
                                 IF p <= 7 + nsa
                                 THEN IF student_id \in DOMAIN sa_scores
                                         /\ columns[p] \in DOMAIN sa_scores[student_id]
                                      THEN sa_scores[student_id][columns[p]] ELSE Num(0)
                                 ELSE IF p <= 7 + nsa + nla
                                 THEN IF student_id \in DOMAIN la_scores
                                         /\ columns[p] \in DOMAIN la_scores[student_id]
                                      THEN la_scores[student_id][columns[p]] ELSE Num(0)
                                 ELSE IF student_id \in DOMAIN tl_scores
                                      THEN tl_scores[student_id] ELSE Num(0)

\* Reached: an output with a keyed score column in which one row shows a
\* collected value and one row shows the zero of a student without one, and
\* a row with the zero of a student without a discussion score.
C2_Witness ==
    /\ pc = "done"
    /\ KeysOf(sa_scores) # {}
    /\ \E i, k \in 1..Len(summary_data) :
          /\ cl_students[i].id \in DOMAIN sa_scores
          /\ summary_data[i][8] # Num(0)
          /\ cl_students[k].id \notin DOMAIN sa_scores
          /\ summary_data[k][8] = Num(0)
    /\ \E i \in 1..Len(summary_data) :
          /\ cl_students[i].id \notin DOMAIN tl_scores
          /\ summary_data[i][Len(columns)] = Num(0)

\* Whether a file holds a row that a keyed collector records.
C5_HasEntry(name) ==
    LET book == disk[name].book
        cols == Columns(book)
    IN  /\ \E e \in {"openpyxl", "xlrd"} :
              /\ (e = "xlrd" => EndsWith(name, XlsExt))
              /\ EngineReads(e, disk[name].format)
        /\ \E j \in 1..Len(cols) : Contains(ScoreWord, cols[j])
        /\ \E j \in 1..Len(cols) : cols[j] = IdLabel
        /\ \E r \in 2..Len(book) :
              /\ NotNa(book[r][ColumnOf(cols, IdLabel)])
              /\ NotNa(book[r][ScoreColumn(cols)])

\* The category keys of the files of the directory that a marker routes and
\* that hold an entry: a function of the directory, not of any order.
C5_Keys(mark) ==
    {CategoryKey(name) : name \in {n \in DOMAIN disk :
        RoutedWithExt(PathStr(data_directory, n), mark) /\ C5_HasEntry(n)}}

\* seq lists the set S in increasing lexical order, each member once.
C5_IsSortedListOf(seq, S) ==
    /\ {seq[n] : n \in 1..Len(seq)} = S
    /\ \A n \in 1..(Len(seq) - 1) : StrLess(seq[n], seq[n + 1])

\* C5 as stated: the columns are the fixed columns, then the lexically
\* sorted union of the distinct keys of the per-file score files, then the
\* aggregated column.
C5_ColumnsAreSortedUnion ==
    pc = "done" =>
        /\ Len(columns) >= 8
        /\ SubSeq(columns, 1, 7) = FixedColumns
        /\ columns[Len(columns)] = TLColumn
        /\ C5_IsSortedListOf(SubSeq(columns, 8, Len(columns) - 1),
                             C5_Keys(MarkSA) \cup C5_Keys(MarkLA))

\* C5 as amended: the columns are the fixed columns, then the distinct SA
\* keys in lexical order, then the distinct LA keys in lexical order, then
\* the aggregated column; the list is a function of the directory's files
\* alone, the same for every discovery order.
C5_ColumnsAreSortedPerCategory ==
    pc = "done" =>
        LET nsa == Cardinality(C5_Keys(MarkSA))
            nla == Cardinality(C5_Keys(MarkLA))
        IN  /\ Len(columns) = 7 + nsa + nla + 1
            /\ SubSeq(columns, 1, 7) = FixedColumns
            /\ C5_IsSortedListOf(SubSeq(columns, 8, 7 + nsa), C5_Keys(MarkSA))
            /\ C5_IsSortedListOf(SubSeq(columns, 8 + nsa, 7 + nsa + nla), C5_Keys(MarkLA))
            /\ columns[Len(columns)] = TLColumn

\* Reached: two SA files discovered in the opposite of lexical key order,
\* both with entries, and an LA key.
C5_Witness ==
    /\ pc = "done"
    /\ Len(sa_files) = 2
    /\ StrLess(CategoryKey(sa_files[2]), CategoryKey(sa_files[1]))
    /\ Cardinality(KeysOf(sa_scores)) = 2
    /\ KeysOf(la_scores) # {}

StageFiles(stage) ==
    CASE stage = "cl" -> cl_files
      [] stage = "sa" -> sa_files
      [] stage = "la" -> la_files
      [] stage = "tl" -> tl_files
      [] OTHER -> <<>>

\* C6: a file whose read fails on every backend, or whose processing raises,
\* is caught: nothing accumulated changes in that step and the loop goes on
\* to the next file; a stage is left only after its last file; a read fails
\* only when no backend tried reads the file.
C6_FailureSkipsOnlyThatFile ==
    [][ /\ failed' # failed =>
             /\ cl_students' = cl_students
             /\ sa_scores' = sa_scores
             /\ la_scores' = la_scores
             /\ tl_scores' = tl_scores
             /\ pc' = pc
             /\ idx' = idx + 1
        /\ (pc' # pc /\ pc # "start") => idx > Len(StageFiles(pc))
        /\ (pc' = pc /\ pc # "start") => idx' = idx + 1
        /\ \A e \in failed' \ failed :
             /\ e = <<pc, StageFiles(pc)[idx]>>
             /\ \/ \A n \in 1..Len(Engines(e[2])) :
                       ~EngineReads(Engines(e[2])[n], FileAt(e[2]).format)
                \/ /\ pc # "cl"
                   /\ \A j \in 1..Len(FileAt(e[2]).book[1]) :
                          Str(FileAt(e[2]).book[1][j]) # IdLabel
        /\ (pc \in {"cl", "sa", "la", "tl"} /\ pc' = pc /\ failed' = failed) =>
             \E n \in 1..Len(Engines(StageFiles(pc)[idx])) :
                 EngineReads(Engines(StageFiles(pc)[idx])[n], FileAt(StageFiles(pc)[idx]).format)
      ]_vars

\* Reached: the first TL file failed, the second was still processed and
\* its scores are held.
C6_Witness ==
    /\ pc = "tl"
    /\ Len(tl_files) = 2
    /\ idx = 3
    /\ <<"tl", tl_files[1]>> \in failed
    /\ <<"tl", tl_files[2]>> \notin failed
    /\ tl_scores # EmptyMapping

\* C7: a discovered file is in a category's list exactly when its file name
\* holds the category's marker and, for CL, SA and LA, ends with '.xls'.
C7_RoutedByFileName ==
    \A n \in 1..Len(all_files) :
        LET f == all_files[n]
            name == PathName(f)
            InList(files) == \E k \in 1..Len(files) : files[k] = f
        IN  /\ InList(cl_files) <=> (Contains(MarkCL, name) /\ EndsWith(name, XlsExt))
            /\ InList(sa_files) <=> (Contains(MarkSA, name) /\ EndsWith(name, XlsExt))
            /\ InList(la_files) <=> (Contains(MarkLA, name) /\ EndsWith(name, XlsExt))
            /\ InList(tl_files) <=> Contains(MarkTL, name)

\* The rows of a TL file that record a score, in row order.
C8_FileWrites(f) ==
    LET book == FileAt(f).book
        cols == Columns(book)
        id_col == ColumnOf(cols, IdLabel)
        tl_col == ColumnOf(cols, TLLabel)
    IN  IF Readable(f) /\ tl_col # 0 /\ id_col # 0
        THEN LET rows == SelectSeq([r \in 1..(Len(book) - 1) |-> r + 1],
                                   LAMBDA r : book[r][id_col].kind # "nan"
                                              /\ book[r][tl_col].kind # "nan")
             IN  [n \in 1..Len(rows) |->
                     [id |-> Strip(Str(book[rows[n]][id_col])), value |-> book[rows[n]][tl_col]]]
        ELSE <<>>

RECURSIVE C8_Writes(_)
C8_Writes(files) ==
    IF files = <<>> THEN <<>> ELSE C8_FileWrites(Head(files)) \o C8_Writes(Tail(files))

\* The value of the last write for each identifier written.
C8_LastValues(writes) ==
    [student_id \in {writes[n].id : n \in 1..Len(writes)} |->
        writes[CHOOSE n \in 1..Len(writes) :
                   /\ writes[n].id = student_id
                   /\ \A m \in (n + 1)..Len(writes) : writes[m].id # student_id].value]

\* The TL files processed so far.
C8_Processed ==
    IF pc = "tl" THEN SubSeq(tl_files, 1, idx - 1)
    ELSE IF pc = "done" THEN tl_files ELSE <<>>

\* C8: the aggregated score of an identifier is the value of the last row
\* processed, over the TL files in discovery order, that holds the
\* identifier and a value; earlier values are overwritten, nothing is
\* summed, and files without the '讨论/' column change nothing.
C8_AggregatedIsLastWrite ==
    pc \in {"tl", "done"} => tl_scores = C8_LastValues(C8_Writes(C8_Processed))

\* Reached: all TL files processed, an identifier written twice with
\* different values, the later one held.
C8_Witness ==
    /\ pc = "done"
    /\ Len(tl_files) = 2
    /\ \E a \in 1..Len(C8_FileWrites(tl_files[1])), b \in 1..Len(C8_FileWrites(tl_files[2])) :
          /\ C8_FileWrites(tl_files[1])[a].id = C8_FileWrites(tl_files[2])[b].id
          /\ C8_FileWrites(tl_files[1])[a].value # C8_FileWrites(tl_files[2])[b].value
          /\ \A m \in (b + 1)..Len(C8_FileWrites(tl_files[2])) :
                 C8_FileWrites(tl_files[2])[m].id # C8_FileWrites(tl_files[2])[b].id
          /\ tl_scores[C8_FileWrites(tl_files[2])[b].id] = C8_FileWrites(tl_files[2])[b].value

\* The (identifier, key, value) triples a keyed mapping holds.
C10_Entries(scores) ==
    UNION {{<<student_id, key, scores[student_id][key]>> : key \in DOMAIN scores[student_id]} :
              student_id \in DOMAIN scores}

\* The base name of a file: its name up to the last '.'.
C10_BaseName(f) ==
    LET name == PathName(f)
        dots == {i \in 1..Len(name) : name[i] = "."}
    IN  IF dots = {} THEN name
        ELSE SubSeq(name, 1, (CHOOSE i \in dots : \A k \in dots : i >= k) - 1)

\* The rows (2.. of the sheet) of a file in which identifier and score are
\* both present, when the file can be read and has both columns.
C10_RecordedRows(f) ==
    LET book == FileAt(f).book
        cols == Columns(book)
    IN  IF Readable(f) /\ ScoreColumn(cols) # 0 /\ ColumnOf(cols, IdLabel) # 0
        THEN {r \in 2..Len(book) : /\ book[r][ColumnOf(cols, IdLabel)].kind # "nan"
                                   /\ book[r][ScoreColumn(cols)].kind # "nan"}
        ELSE {}

C10_RowId(f, r) ==
    Strip(Str(FileAt(f).book[r][ColumnOf(Columns(FileAt(f).book), IdLabel)]))
C10_RowValue(f, r) == FileAt(f).book[r][ScoreColumn(Columns(FileAt(f).book))]

\* What processing file f does to a keyed mapping: every recorded row has
\* exactly one entry under (its identifier, the file's base name), holding
\* the row's value (the last such row's, when rows share an identifier);
\* nothing else is added and every other entry is kept.
C10_FileStep(before, after, f) ==
    LET rows == C10_RecordedRows(f)
        key == C10_BaseName(f)
        written == {<<C10_RowId(f, r), key, C10_RowValue(f, r)>> :
                       r \in {q \in rows : \A l \in rows :
                                  l > q => C10_RowId(f, l) # C10_RowId(f, q)}}
    IN  /\ C10_Entries(after) =
              {e \in C10_Entries(before) :
                  ~\E w \in written : w[1] = e[1] /\ w[2] = e[2]} \cup written
        /\ DOMAIN after = {e[1] : e \in C10_Entries(after)}
        /\ \A r \in rows :
              Cardinality({e \in C10_Entries(after) :
                              e[1] = C10_RowId(f, r) /\ e[2] = key}) = 1
        /\ rows = {} => after = before

\* C10: for each SA and each LA file with a column whose name contains
\* '得分', every row with identifier and score both present records exactly
\* one entry (identifier, file base name) -> value, rows with either missing
\* record nothing, and a file without such a column leaves the mapping as
\* it was.
C10_KeyedFileRecordsPresentRows ==
    [][ /\ (pc = "sa" /\ pc' = "sa") => C10_FileStep(sa_scores, sa_scores', sa_files[idx])
        /\ (pc = "la" /\ pc' = "la") => C10_FileStep(la_scores, la_scores', la_files[idx])
      ]_vars

\* Reached: an SA file with a score column has been processed; the row with
\* both cells present is held under the file's base name, the identifier of
\* the row with no score is not held, and the rows' identifiers are the
\* only ones held.
C10_Witness ==
    /\ pc = "sa" /\ idx = 2
    /\ FileAt(sa_files[1]).book = BookA
    /\ IdA \in DOMAIN sa_scores
    /\ DOMAIN sa_scores[IdA] = {C10_BaseName(sa_files[1])}
    /\ sa_scores[IdA][C10_BaseName(sa_files[1])] = Num(85)
    /\ IdB \notin DOMAIN sa_scores

----------------------------------------------------------------------------
(* Claims about one roster grid, checked under RosterSpec *)

KeywordsOf(field) ==
    CASE field = "id" -> IdKeywords
      [] field = "name" -> NameKeywords
      [] field = "class" -> ClassKeywords
      [] field = "gender" -> GenderKeywords
      [] field = "seq" -> SeqKeywords

\* The fields for which row i holds a cell containing one of their keywords.
FieldsMatchedIn(grid, i) ==
    {f \in Fields : \E j \in 1..Len(grid[i + 1]) :
        AnyKeyword(KeywordsOf(f), Lower(Strip(Str(grid[i + 1][j]))))}

HeaderCandidates(grid) ==
    {i \in 0..(Len(grid) - 1) : i < 20 /\ Cardinality(FieldsMatchedIn(grid, i)) >= 2}

\* C3: the header locator returns the first of the first 20 rows in which
\* at least 2 distinct fields are matched by keyword containment, with a
\* mapping over exactly the fields matched in that row; a row matching fewer
\* than 2 distinct fields is never accepted, and no header is reported when
\* no row qualifies.
C3_HeaderIsFirstRowWithTwoDistinctFields ==
    pc \in {"located", "extracted"} =>
        IF HeaderCandidates(df) = {}
        THEN ~header.found
        ELSE /\ header.found
             /\ header.header_row_idx \in HeaderCandidates(df)
             /\ \A i \in HeaderCandidates(df) : header.header_row_idx <= i
             /\ DOMAIN header.col_mapping = FieldsMatchedIn(df, header.header_row_idx)

\* The text of the identifier-column cell of row i, as the code reads it:
\* converted to str and trimmed.
IdCellText(grid, hdr, i) == Strip(Str(grid[i + 1][hdr.col_mapping["id"] + 1]))

\* The clauses of C4 on a cell text.
C4_CellQualifies(t) ==
    /\ Len(t) > 0
    /\ t # <<"n", "a", "n">>
    /\ Len(t) >= 8
    /\ \E k \in 1..Len(t) : t[k] \in {"0", "1", "2", "3", "4", "5", "6", "7", "8", "9"}
    /\ \E k \in 1..Len(t) :
           t[k] \notin {".", "-", "0", "1", "2", "3", "4", "5", "6", "7", "8", "9"}

\* How many students row i yielded.
YieldOf(i) == Cardinality({n \in 1..Len(found_rows) : found_rows[n] = i})

\* C4: in the mapped path a row yields exactly one student when it is one
\* of the 30 rows right after the header row and its identifier cell is
\* non-empty, not 'nan', at least 8 long, holds a digit and holds a character
\* other than digits, '.' and '-'; every other row yields none; the student
\* carries that cell's text, and students come in row order.
C4_MappedRowYieldsOneIffQualifies ==
    (pc = "extracted" /\ UsesMappedPath(header)) =>
        /\ Len(extracted) = Len(found_rows)
        /\ \A i \in 0..(Len(df) - 1) :
              IF /\ i > header.header_row_idx
                 /\ i <= header.header_row_idx + 30
                 /\ C4_CellQualifies(IdCellText(df, header, i))
              THEN YieldOf(i) = 1
              ELSE YieldOf(i) = 0
        /\ \A n \in 1..Len(found_rows) :
              /\ extracted[n].id = IdCellText(df, header, found_rows[n])
              /\ \A m \in 1..(n - 1) : found_rows[m] < found_rows[n]

\* Reached: a mapped-path grid with students from two rows or more, a row
\* inside the window that yields nothing, and a well-formed identifier past
\* the window that yields nothing.
C4_Witness ==
    /\ pc = "extracted" /\ UsesMappedPath(header)
    /\ Len(found_rows) >= 2
    /\ \E i \in 0..(Len(df) - 1) :
          /\ i > header.header_row_idx + 30
          /\ C4_CellQualifies(IdCellText(df, header, i))
    /\ \E i \in 0..(Len(df) - 1) :
          /\ i > header.header_row_idx /\ i <= header.header_row_idx + 30
          /\ ~C4_CellQualifies(IdCellText(df, header, i))

\* The four heuristics of C9, each on its own.
C9_NameOk(v) ==
    /\ ~LooksLikeId(v)
    /\ ~IsDigit(Replace(v, <<".">>))
    /\ Len(v) >= 2 /\ Len(v) <= 15
    /\ ~AnyKeyword(NameExcluded, Lower(v))
C9_SeqOk(v) == IsDigit(v) /\ Len(v) <= 3
C9_GenderOk(v) == v \in GenderValues
C9_ClassOk(v) == AnyKeyword(ClassMarks, v) /\ Len(v) >= 3 /\ Len(v) <= 20

\* The cells of row i the fallback path looks at, left to right: not the
\* identifier column, not empty, not 'nan'; trimmed.
C9_OtherCells(grid, i, id_col) ==
    LET row_data == RowData(grid, i)
    IN  [n \in 1..Len(SelectSeq([k \in 1..Len(row_data) |-> k],
                            LAMBDA k : k - 1 # id_col /\ row_data[k] # <<>>
                                       /\ row_data[k] # NanStr))
           |-> Strip(row_data[SelectSeq([k \in 1..Len(row_data) |-> k],
                            LAMBDA k : k - 1 # id_col /\ row_data[k] # <<>>
                                       /\ row_data[k] # NanStr)[n]])]

\* The first of cells whose position is in hits, '' when hits is empty.
C9_FirstOf(cells, hits) ==
    IF hits = {} THEN <<>> ELSE cells[CHOOSE n \in hits : \A m \in hits : n <= m]

\* C9: in the fallback path each of name, sequence, gender and class label
\* of a student is the first cell, left to right over the cells other than
\* the identifier column, that satisfies that field's own heuristic,
\* wherever the cells of the other fields sit.
C9_FallbackFieldsAreFirstMatches ==
    (pc = "extracted" /\ ~UsesMappedPath(header)) =>
        \A n \in 1..Len(extracted) :
            LET cells == C9_OtherCells(df, found_rows[n], FindAnchor(df).student_id_col)
                at == 1..Len(cells)
            IN  /\ extracted[n].name = C9_FirstOf(cells, {k \in at : C9_NameOk(cells[k])})
                /\ extracted[n].original_seq = C9_FirstOf(cells, {k \in at : C9_SeqOk(cells[k])})
                /\ extracted[n].gender = C9_FirstOf(cells, {k \in at : C9_GenderOk(cells[k])})
                /\ extracted[n].class = C9_FirstOf(cells, {k \in at : C9_ClassOk(cells[k])})

----------------------------------------------------------------------------
(* Claim C11: which extraction path a roster grid takes (RosterSpec) *)

\* The header locator found a header row whose mapping has the identifier.
C11_HeaderWithId == header.found /\ "id" \in DOMAIN header.col_mapping

----------------------------------------------------------------------------
(* Claim C12: the column names of the merged table (Spec) *)

\* C12: the column names of the merged output table are pairwise distinct:
\* no category key is emitted twice, and none coincides with a fixed
\* identity column or the aggregated column.
C12_ColumnNamesDistinct ==
    pc = "done" =>
        \A i, j \in 1..Len(columns) : columns[i] = columns[j] => i = j

====
